---- MODULE Spec2Model ----
(***************************************************************************)
(* Model of bin/collect_bioconda_recipes.py: the keyword loader, the       *)
(* recipe loader, the keyword filter and the exporter, and the main script *)
(* that runs them in sequence.                                             *)
(*                                                                         *)
(* A Python str is a sequence of one-character strings.  A YAML value is a *)
(* record whose "kind" says what safe_load produced.                       *)
(***************************************************************************)
EXTENDS Integers, Sequences, FiniteSets, TLC

VARIABLES
    pc,             \* position of the run in the main script
    kwDoc,          \* input: what yaml.safe_load gives for the keywords file
    files,          \* input: the meta.yaml files found by the glob, in order
    writable,       \* input: whether the output path can be opened for writing
    keywords,       \* main: keywords
    i,              \* parse_bioconda: number of files already processed
    data,           \* parse_bioconda: data
    conda,          \* main: conda
    conda_filtered, \* main: conda_filtered
    refiltered,     \* result of filtering conda_filtered again
    stdout,         \* lines printed so far
    output,         \* the output file
    error           \* the exception that ended the run, "none" if none

vars == <<pc, kwDoc, files, writable, keywords, i, data, conda, conda_filtered,
          refiltered, stdout, output, error>>

(***************************************************************************)
(* Values                                                                  *)
(***************************************************************************)
Unset == [set |-> FALSE, val |-> <<>>]
Val(v) == [set |-> TRUE, val |-> v]

\* a scalar, or the absence of a key in a mapping ("missing")
Str(s) == [kind |-> "str", val |-> s]
Null == [kind |-> "null", val |-> <<>>]
IntV == [kind |-> "int", val |-> <<>>]
Missing == [kind |-> "missing", val |-> <<>>]

\* the about section of a recipe
AboutMap(s, d) == [kind |-> "map", summary |-> s, description |-> d]
AboutMissing == [kind |-> "missing", summary |-> Missing, description |-> Missing]
AboutNull == [kind |-> "null", summary |-> Missing, description |-> Missing]

\* the package section of a recipe
PkgMap(n) == [kind |-> "map", val |-> <<>>, name |-> n]
PkgMissing == [kind |-> "missing", val |-> <<>>, name |-> Missing]
PkgNull == [kind |-> "null", val |-> <<>>, name |-> Missing]
PkgInt == [kind |-> "int", val |-> <<>>, name |-> Missing]
PkgStr(s) == [kind |-> "str", val |-> s, name |-> Missing]

\* a parsed document
DocMap(p, a) == [kind |-> "map", val |-> <<>>, items |-> <<>>, package |-> p, about |-> a]
DocNull == [kind |-> "null", val |-> <<>>, items |-> <<>>, package |-> PkgMissing, about |-> AboutMissing]
DocInt == [kind |-> "int", val |-> <<>>, items |-> <<>>, package |-> PkgMissing, about |-> AboutMissing]
DocStr(s) == [kind |-> "str", val |-> s, items |-> <<>>, package |-> PkgMissing, about |-> AboutMissing]
DocList(l) == [kind |-> "list", val |-> <<>>, items |-> l, package |-> PkgMissing, about |-> AboutMissing]

\* a printed line
Line(tag, name, matched, n) == [tag |-> tag, name |-> name, matched |-> matched, n |-> n]

(***************************************************************************)
(* Strings                                                                 *)
(***************************************************************************)
LowerMap ==
    [c \in {"A","B","C","D","E","F","G","H","I","J","K","L","M","N","O","P","Q",
            "R","S","T","U","V","W","X","Y","Z"} |->
       CASE c = "A" -> "a" [] c = "B" -> "b" [] c = "C" -> "c" [] c = "D" -> "d"
         [] c = "E" -> "e" [] c = "F" -> "f" [] c = "G" -> "g" [] c = "H" -> "h"
         [] c = "I" -> "i" [] c = "J" -> "j" [] c = "K" -> "k" [] c = "L" -> "l"
         [] c = "M" -> "m" [] c = "N" -> "n" [] c = "O" -> "o" [] c = "P" -> "p"
         [] c = "Q" -> "q" [] c = "R" -> "r" [] c = "S" -> "s" [] c = "T" -> "t"
         [] c = "U" -> "u" [] c = "V" -> "v" [] c = "W" -> "w" [] c = "X" -> "x"
         [] c = "Y" -> "y" [] c = "Z" -> "z"]

\* str.lower()
Lower(s) == [k \in 1..Len(s) |-> IF s[k] \in DOMAIN LowerMap THEN LowerMap[s[k]] ELSE s[k]]

Whitespace == {" "}

Least(S) == CHOOSE a \in S : \A b \in S : a <= b

\* str.split(): skip the whitespace, take the characters up to the next whitespace
\* as a word, go on after it
RECURSIVE SplitFrom(_, _)
SplitFrom(s, k) ==
    LET starts == {a \in k..Len(s) : s[a] \notin Whitespace}
    IN  IF starts = {} THEN <<>>
        ELSE LET a == Least(starts)
                 b == Least({e \in a..Len(s) : e = Len(s) \/ s[e + 1] \in Whitespace})
             IN  <<SubSeq(s, a, b)>> \o SplitFrom(s, b + 1)

Split(s) == SplitFrom(s, 1)

\* fnmatch.fnmatch(name, pat) for patterns made of "*", "?" and literal characters:
\* the whole name must match
RECURSIVE FnMatchFrom(_, _, _, _)
FnMatchFrom(name, pat, n, p) ==
    IF p > Len(pat) THEN n > Len(name)
    ELSE IF pat[p] = "*"
         THEN \/ FnMatchFrom(name, pat, n, p + 1)
              \/ n <= Len(name) /\ FnMatchFrom(name, pat, n + 1, p)
         ELSE /\ n <= Len(name)
              /\ pat[p] = "?" \/ pat[p] = name[n]
              /\ FnMatchFrom(name, pat, n + 1, p + 1)

FnMatch(name, pat) == FnMatchFrom(name, pat, 1, 1)

\* sub in text
Contains(sub, text) ==
    \E k \in 1..(Len(text) - Len(sub) + 1) : SubSeq(text, k, k + Len(sub) - 1) = sub

\* c in s, for a one-character c
HasChar(c, s) == \E k \in 1..Len(s) : s[k] = c

\* x in l, for a list l
InList(x, l) == \E k \in 1..Len(l) : l[k] = x

(***************************************************************************)
(* dict                                                                    *)
(* A dict is the sequence of its items in insertion order, keys unique.    *)
(***************************************************************************)
Item(k, v) == [key |-> k, doc |-> v]
Keys(d) == {d[n].key : n \in 1..Len(d)}
HasKey(d, k) == \E n \in 1..Len(d) : d[n].key = k
Get(d, k) == d[CHOOSE n \in 1..Len(d) : d[n].key = k].doc

\* d[k] = v
DictSet(d, k, v) ==
    IF HasKey(d, k)
    THEN [n \in 1..Len(d) |-> IF d[n].key = k THEN Item(k, v) ELSE d[n]]
    ELSE Append(d, Item(k, v))

(***************************************************************************)
(* filter_conda_by_keywords                                                *)
(***************************************************************************)
Raise(e) == [err |-> e, text |-> <<>>]
Text(t) == [err |-> "none", text |-> t]

\* about.get(field, "") as an operand of +
Operand(v) == IF v.kind = "missing" THEN Str(<<>>) ELSE v

\* the search text of a recipe: summary first (not what the code does)
SummaryFirstText(recipe) ==
    IF recipe.about.kind = "null" THEN Raise("AttributeError")
    ELSE LET description == Operand(recipe.about.description)
             summary == Operand(recipe.about.summary)
         IN  IF description.kind # "str" \/ summary.kind # "str"
             THEN Raise("TypeError")
             ELSE Text(Lower(summary.val \o <<" ">> \o description.val))

\* about = recipe.get("about", {})
\* text = (about.get("description", "") + " " + about.get("summary", "")).lower()
SearchText(recipe) ==
    IF recipe.about.kind = "null" THEN Raise("AttributeError")
    ELSE LET description == Operand(recipe.about.description)
             summary == Operand(recipe.about.summary)
         IN  IF description.kind # "str" \/ summary.kind # "str"
             THEN Raise("TypeError")
             ELSE Text(Lower(description.val \o <<" ">> \o summary.val))

\* the wildcard pattern matched against the whole text instead of its words
WholeTextMatches(kw, text) ==
    LET kw_lower == Lower(kw)
    IN  IF HasChar("*", kw_lower)
        THEN FnMatch(text, kw_lower)
        ELSE Contains(kw_lower, text)

\* the keyword used as it is written, not lower-cased
CaseSensitiveMatches(kw, text) ==
    IF HasChar("*", kw)
    THEN LET words == Split(text)
         IN  \E w \in 1..Len(words) : FnMatch(words[w], kw)
    ELSE Contains(kw, text)

\* the body of "for kw in keywords" for a str kw: whether kw is appended to matched
KwMatches(kw, text) ==
    LET kw_lower == Lower(kw)
    IN  IF HasChar("*", kw_lower)
        THEN LET words == Split(text)
             IN  \E w \in 1..Len(words) : FnMatch(words[w], kw_lower)
        ELSE Contains(kw_lower, text)

\* matched, after the loop over the keywords; kw.lower() fails on a keyword
\* that is no str
RECURSIVE MatchedFrom(_, _, _)
MatchedFrom(kws, text, k) ==
    IF k > Len(kws) THEN <<>>
    ELSE (IF KwMatches(kws[k].val, text) THEN <<kws[k]>> ELSE <<>>)
         \o MatchedFrom(kws, text, k + 1)

Matched(kws, text) ==
    IF \E k \in 1..Len(kws) : kws[k].kind # "str"
    THEN [err |-> "AttributeError", matched |-> <<>>]
    ELSE [err |-> "none", matched |-> MatchedFrom(kws, text, 1)]

\* the loop over conda.items() from item n on
RECURSIVE FilterFrom(_, _, _, _, _)
FilterFrom(cnd, kws, n, filtered_conda, out) ==
    IF n > Len(cnd)
    THEN [err |-> "none", val |-> filtered_conda,
          out |-> Append(out, Line("total", Missing, <<>>, Len(filtered_conda)))]
    ELSE LET text == SearchText(cnd[n].doc)
         IN  IF text.err # "none"
             THEN [err |-> text.err, val |-> <<>>, out |-> out]
             ELSE LET m == Matched(kws, text.text)
                  IN  IF m.err # "none"
                      THEN [err |-> m.err, val |-> <<>>, out |-> out]
                      ELSE IF m.matched # <<>>
                           THEN FilterFrom(cnd, kws, n + 1,
                                    DictSet(filtered_conda, cnd[n].key, cnd[n].doc),
                                    Append(out, Line("match", cnd[n].key, m.matched, 0)))
                           ELSE FilterFrom(cnd, kws, n + 1, filtered_conda, out)

\* the filter storing the about section in place of the recipe
RECURSIVE FilterAboutFrom(_, _, _, _, _)
FilterAboutFrom(cnd, kws, n, filtered_conda, out) ==
    IF n > Len(cnd)
    THEN [err |-> "none", val |-> filtered_conda,
          out |-> Append(out, Line("total", Missing, <<>>, Len(filtered_conda)))]
    ELSE LET text == SearchText(cnd[n].doc)
         IN  IF text.err # "none"
             THEN [err |-> text.err, val |-> <<>>, out |-> out]
             ELSE LET m == Matched(kws, text.text)
                  IN  IF m.err # "none"
                      THEN [err |-> m.err, val |-> <<>>, out |-> out]
                      ELSE IF m.matched # <<>>
                           THEN FilterAboutFrom(cnd, kws, n + 1,
                                    DictSet(filtered_conda, cnd[n].key,
                                            DocMap(PkgMissing, AboutMap(Missing, Missing))),
                                    Append(out, Line("match", cnd[n].key, m.matched, 0)))
                           ELSE FilterAboutFrom(cnd, kws, n + 1, filtered_conda, out)

filter_keeping_about(cnd, kws) == FilterAboutFrom(cnd, kws, 1, <<>>, <<>>)

\* the filter keeping every recipe, matched or not
filter_keeping_all(cnd, kws) ==
    [err |-> "none", val |-> cnd, out |-> <<Line("total", Missing, <<>>, Len(cnd))>>]

filter_conda_by_keywords(cnd, kws) == FilterFrom(cnd, kws, 1, <<>>, <<>>)

(***************************************************************************)
(* load_keywords_from_yaml                                                 *)
(***************************************************************************)
\* the value under the "keywords" key
KwList(l) == [kind |-> "list", list |-> l]
KwScalar(k) == [kind |-> k, list |-> <<>>]

\* the parsed keyword configuration
KwMap(has, value) == [kind |-> "map", val |-> <<>>, items |-> <<>>, has |-> has, value |-> value]
KwNull == [kind |-> "null", val |-> <<>>, items |-> <<>>, has |-> FALSE, value |-> KwScalar("null")]
KwInt == [kind |-> "int", val |-> <<>>, items |-> <<>>, has |-> FALSE, value |-> KwScalar("null")]
KwStr(s) == [kind |-> "str", val |-> s, items |-> <<>>, has |-> FALSE, value |-> KwScalar("null")]
KwSeq(l) == [kind |-> "list", val |-> <<>>, items |-> l, has |-> FALSE, value |-> KwScalar("null")]

KEYWORDS == <<"k","e","y","w","o","r","d","s">>
PACKAGE == <<"p","a","c","k","a","g","e">>
NAME == <<"n","a","m","e">>

\* not data, for a keyword configuration: None, "", [] (a mapping of the model
\* that lacks the key fails the next test with the same error)
KwFalsy(d) ==
    \/ d.kind = "null"
    \/ d.kind = "str" /\ d.val = <<>>
    \/ d.kind = "list" /\ d.items = <<>>

\* "keywords" in data; fails on an int
KwIn(d) ==
    CASE d.kind = "map" -> d.has
      [] d.kind = "str" -> Contains(KEYWORDS, d.val)
      [] d.kind = "list" -> InList(KEYWORDS, d.items)
      [] OTHER -> FALSE

Loaded(l) == [err |-> "none", val |-> l]
LoadError(e) == [err |-> e, val |-> <<>>]

load_keywords_from_yaml(d) ==
    IF KwFalsy(d) THEN LoadError("ValueError")
    ELSE IF d.kind = "int" THEN LoadError("TypeError")  \* argument of type 'int' is not iterable
    ELSE IF ~KwIn(d) THEN LoadError("ValueError")
    ELSE IF d.kind # "map" THEN LoadError("TypeError")  \* data["keywords"] on a str or a list
    ELSE IF d.value.kind # "list" THEN LoadError("TypeError")
    ELSE Loaded(d.value.list)

(***************************************************************************)
(* parse_bioconda                                                          *)
(***************************************************************************)
File(folder, outcome, doc) == [folder |-> folder, outcome |-> outcome, doc |-> doc]

\* not conda: None, {}, "", []
Falsy(d) ==
    \/ d.kind = "null"
    \/ d.kind = "map" /\ d.package.kind = "missing" /\ d.about.kind = "missing"
    \/ d.kind = "str" /\ d.val = <<>>
    \/ d.kind = "list" /\ d.items = <<>>

\* the validation and the two lines after it, for a rendered and parsed document:
\* the exception raised, "none" if data[pkg_name] = conda is reached
Validate(d) ==
    IF Falsy(d) THEN "ValueError"
    ELSE CASE d.kind = "int" -> "TypeError"
           [] d.kind = "str" -> IF Contains(PACKAGE, d.val) THEN "TypeError" ELSE "ValueError"
           [] d.kind = "list" -> IF InList(PACKAGE, d.items) THEN "TypeError" ELSE "ValueError"
           [] OTHER ->
              CASE d.package.kind = "missing" -> "ValueError"
                [] d.package.kind = "null" -> "TypeError"
                [] d.package.kind = "int" -> "TypeError"
                [] d.package.kind = "str" ->
                     IF Contains(NAME, d.package.val) THEN "TypeError" ELSE "ValueError"
                [] OTHER ->
                     IF d.package.name.kind = "missing" THEN "ValueError" ELSE "none"

\* the exception one pass of the loop raises on file f, "none" if none
FileError(f) ==
    CASE f.outcome = "render_error" -> "RuntimeError: Failed to render Jinja2 template"
      [] f.outcome = "yaml_error" -> "RuntimeError: Failed to parse YAML"
      [] OTHER -> Validate(f.doc)

\* the key a file is stored under: its folder
folder_name(f) == Str(f.folder)

\* pkg_name = conda["package"]["name"]
pkg_name(f) == f.doc.package.name

(***************************************************************************)
(* Inputs                                                                  *)
(***************************************************************************)
MaxFiles == 2       \* files under the root directory
MaxRecipes == 2     \* recipes of a collection handed to the filter
MaxKeywords == 2    \* keywords of a sequence handed to the filter
MaxText == 2        \* characters of a description
MaxPattern == 3     \* characters of a keyword

StringsUpTo(alphabet, n) == UNION {[1..k -> alphabet] : k \in 0..n}

\* the sample recipes and keywords of tests/test_collect_bioconda_recipies.py (1-3)
\* and the texts of the examples "genome" and "16s rrna" (4)
S1 == <<"A","n","a","l","y","s","i","s"," ","o","f"," ","1","6","S"," ","r","R","N","A"," ","m","i","c","r","o","b","i","a","l"," ","c","o","m","m","u","n","i","t","i","e","s">>
D1 == <<"T","h","i","s"," ","t","o","o","l"," ","p","r","o","f","i","l","e","s"," ","m","i","c","r","o","b","i","a","l"," ","d","i","v","e","r","s","i","t","y"," ","i","n"," ","m","e","t","a","g","e","n","o","m","i","c","s"," ","s","t","u","d","i","e","s">>
S2 == <<"A"," ","c","o","m","p","l","e","t","e","l","y"," ","u","n","r","e","l","a","t","e","d"," ","p","a","c","k","a","g","e">>
D2 == <<"b","l","a">>
S3 == <<"M","e","t","a","g","e","n","o","m","e"," ","a","s","s","e","m","b","l","y"," ","p","i","p","e","l","i","n","e">>
D3 == <<"A","s","s","e","m","b","l","e","s"," ","m","e","t","a","g","e","n","o","m","i","c"," ","r","e","a","d","s"," ","i","n","t","o"," ","c","o","n","t","i","g","s">>
S4 == <<"g","e","n","o","m","e">>
D4 == <<"1","6","s"," ","r","r","n","a">>
MICROBIOME == <<"m","i","c","r","o","b","i","o","m","e">>
K16S == <<"1","6","S">>
METAGENOM == <<"m","e","t","a","g","e","n","o","m","*">>
Pkg(n) == <<"p","k","g",n>>
Sample(n, s, d) == Item(Str(Pkg(n)), DocMap(PkgMap(Str(Pkg(n))), AboutMap(Str(s), Str(d))))
sample_conda == <<Sample("1", S1, D1), Sample("2", S2, D2), Sample("3", S3, D3)>>
example_conda == <<Sample("4", S4, D4)>>
sample_keywords == <<Str(MICROBIOME), Str(K16S), Str(METAGENOM)>>

\* one recipe and one keyword, every short text and pattern
TextAlphabet == {"a", "b", "A", " "}
PatternAlphabet == {"a", "b", "A", " ", "*"}
QuestionPatterns == {<<"?">>, <<"?", "*">>, <<"*", "?">>, <<"a", "?", "*">>, <<"?", "?", "*">>}
SummaryPool == {Missing, Str(<<>>), Str(<<"b">>), Str(<<"A">>)}
OneRecipe ==
    {<<Item(Str(<<"p">>), DocMap(PkgMap(Str(<<"p">>)), a))>> :
        a \in {AboutMissing, AboutMap(Missing, Missing)}
              \cup {AboutMap(s, Str(d)) : s \in SummaryPool, d \in StringsUpTo(TextAlphabet, MaxText)}}
OneKeyword == {<<Str(k)>> : k \in StringsUpTo(PatternAlphabet, MaxPattern) \cup QuestionPatterns}

\* several recipes and keywords, a few texts and patterns
AboutPool ==
    {AboutMissing, AboutNull, AboutMap(Str(<<"a">>), Missing), AboutMap(Missing, Str(<<"b">>)),
     AboutMap(Str(<<"a">>), Str(<<"B">>)), AboutMap(Null, Str(<<"a">>))}
KeywordPool == {Str(<<"a">>), Str(<<"b","*">>), Str(<<"b"," ","a">>), Str(<<"c">>), IntV}
Names == [k \in 1..(MaxRecipes + 1) |-> Str([j \in 1..k |-> "p"])]
Recipes ==
    UNION {{[n \in 1..k |-> Item(Names[n], DocMap(PkgMap(Names[n]), a[n]))] :
                a \in [1..k -> AboutPool]} : k \in 0..MaxRecipes}
KeywordSeqs == UNION {[1..k -> KeywordPool] : k \in 0..MaxKeywords}

\* the keyword configurations
KwDocs ==
    {KwNull, KwInt, KwStr(<<"x">>), KwStr(KEYWORDS), KwSeq(<<<<"a">>>>), KwSeq(<<KEYWORDS>>),
     KwMap(FALSE, KwScalar("null")), KwMap(TRUE, KwScalar("null")), KwMap(TRUE, KwScalar("str")),
     KwMap(TRUE, KwList(<<>>)), KwMap(TRUE, KwList(<<Str(<<"a">>)>>)),
     KwMap(TRUE, KwList(<<Str(<<"c">>), Str(<<"B","*">>)>>)), KwMap(TRUE, KwList(<<IntV>>))}

\* the documents of the recipe files
DocPool ==
    {DocNull, DocInt, DocStr(<<"x">>), DocStr(PACKAGE), DocList(<<PACKAGE>>),
     DocMap(PkgMissing, AboutMap(Str(<<"a">>), Missing)),
     DocMap(PkgNull, AboutMissing), DocMap(PkgInt, AboutMissing),
     DocMap(PkgStr(<<"x">>), AboutMissing), DocMap(PkgStr(NAME), AboutMissing),
     DocMap(PkgMap(Missing), AboutMissing),
     DocMap(PkgMap(Str(<<"p">>)), AboutMap(Str(<<"a">>), Missing)),
     DocMap(PkgMap(Str(<<"p">>)), AboutMap(Missing, Str(<<"b">>))),
     DocMap(PkgMap(Str(<<"q">>)), AboutMissing),
     DocMap(PkgMap(Str(<<"q">>)), AboutNull),
     DocMap(PkgMap(Str(<<>>)), AboutMap(Str(<<"A">>), Str(<<"b">>))),
     DocMap(PkgMap(Null), AboutMap(Missing, Str(<<"a">>)))}
Outcomes ==
    {[outcome |-> "render_error", doc |-> DocNull], [outcome |-> "yaml_error", doc |-> DocNull]}
    \cup {[outcome |-> "ok", doc |-> d] : d \in DocPool}
Folder(k) == [j \in 1..k |-> "f"]
FileSeqs ==
    UNION {{[n \in 1..k |-> File(Folder(n), o[n].outcome, o[n].doc)] : o \in [1..k -> Outcomes]} :
              k \in 0..MaxFiles}

(***************************************************************************)
(* The main script                                                         *)
(***************************************************************************)
Init ==
    /\ pc = "load_keywords_from_yaml"
    /\ kwDoc = KwNull
    /\ files = <<>>
    /\ writable = TRUE
    /\ keywords = Unset
    /\ i = 0
    /\ data = <<>>
    /\ conda = Unset
    /\ conda_filtered = Unset
    /\ refiltered = Unset
    /\ stdout = <<>>
    /\ output = Unset
    /\ error = "none"

\* keywords = load_keywords_from_yaml(args.keywords_file)
LoadKeywords ==
    /\ pc = "load_keywords_from_yaml" /\ error = "none"
    /\ \E d \in KwDocs :
         LET r == load_keywords_from_yaml(d)
         IN  /\ kwDoc' = d
             /\ IF r.err = "none"
                THEN /\ keywords' = Val(r.val)
                     /\ stdout' = Append(stdout, Line("loaded", Missing, <<>>, Len(r.val)))
                     /\ pc' = "glob"
                     /\ error' = error
                ELSE /\ error' = r.err
                     /\ UNCHANGED <<keywords, stdout, pc>>
    /\ UNCHANGED <<files, writable, i, data, conda, conda_filtered, refiltered, output>>

\* data = {}; paths = list(Path(directory).glob("./*/meta.yaml"))
Glob ==
    /\ pc = "glob" /\ error = "none"
    /\ files' \in FileSeqs
    /\ data' = <<>>
    /\ i' = 0
    /\ pc' = "parse_bioconda"
    /\ UNCHANGED <<kwDoc, writable, keywords, conda, conda_filtered, refiltered, stdout,
                   output, error>>

\* one pass of the loop that skips a failing file
ParseFileSkipping ==
    /\ pc = "parse_bioconda" /\ error = "none"
    /\ i < Len(files)
    /\ LET f == files[i + 1]
       IN  IF FileError(f) = "none"
           THEN data' = DictSet(data, pkg_name(f), f.doc)
           ELSE data' = data
    /\ i' = i + 1
    /\ UNCHANGED <<pc, kwDoc, files, writable, keywords, conda, conda_filtered, refiltered,
                   stdout, output, error>>

\* one pass of the loop "for p in paths"
ParseFile ==
    /\ pc = "parse_bioconda" /\ error = "none"
    /\ i < Len(files)
    /\ LET f == files[i + 1]
           e == FileError(f)
       IN  IF e = "none"
           THEN /\ data' = DictSet(data, pkg_name(f), f.doc)
                /\ i' = i + 1
                /\ error' = error
           ELSE /\ error' = e
                /\ UNCHANGED <<data, i>>
    /\ UNCHANGED <<pc, kwDoc, files, writable, keywords, conda, conda_filtered, refiltered,
                   stdout, output>>

\* return data; conda = parse_bioconda(args.bioconda_path)
ParseReturn ==
    /\ pc = "parse_bioconda" /\ error = "none"
    /\ i = Len(files)
    /\ conda' = Val(data)
    /\ pc' = "filter_conda_by_keywords"
    /\ UNCHANGED <<kwDoc, files, writable, keywords, i, data, conda_filtered, refiltered,
                   stdout, output, error>>

\* conda_filtered = filter_conda_by_keywords(conda, keywords)
Filter ==
    /\ pc = "filter_conda_by_keywords" /\ error = "none"
    /\ LET r == filter_conda_by_keywords(conda.val, keywords.val)
       IN  /\ stdout' = stdout \o r.out
           /\ IF r.err = "none"
              THEN /\ conda_filtered' = Val(r.val)
                   /\ pc' = "save_filtered_conda_to_json"
                   /\ error' = error
              ELSE /\ error' = r.err
                   /\ UNCHANGED <<conda_filtered, pc>>
    /\ UNCHANGED <<kwDoc, files, writable, keywords, i, data, conda, refiltered, output>>

\* save_filtered_conda_to_json(conda_filtered, args.output_file)
Save ==
    /\ pc = "save_filtered_conda_to_json" /\ error = "none"
    /\ \E w \in BOOLEAN :
         /\ writable' = w
         /\ IF w
            THEN /\ output' = Val(conda_filtered.val)
                 /\ stdout' = Append(stdout, Line("written", Missing, <<>>, 0))
                 /\ pc' = "done"
                 /\ error' = error
            ELSE /\ error' = "OSError"
                 /\ UNCHANGED <<output, stdout, pc>>
    /\ UNCHANGED <<kwDoc, files, keywords, i, data, conda, conda_filtered, refiltered>>

Next == LoadKeywords \/ Glob \/ ParseFile \/ ParseReturn \/ Filter \/ Save

Spec == Init /\ [][Next]_vars

(***************************************************************************)
(* The filter on its own: applied to a collection, then to its own result  *)
(***************************************************************************)
FilterInputs ==
    (OneRecipe \X OneKeyword) \cup (Recipes \X KeywordSeqs)
    \cup {<<sample_conda, sample_keywords>>, <<example_conda, sample_keywords>>}

InitFilter ==
    /\ pc = "filter_conda_by_keywords"
    /\ \E in \in FilterInputs : conda = Val(in[1]) /\ keywords = Val(in[2])
    /\ kwDoc = KwNull
    /\ files = <<>>
    /\ writable = TRUE
    /\ i = 0
    /\ data = <<>>
    /\ conda_filtered = Unset
    /\ refiltered = Unset
    /\ stdout = <<>>
    /\ output = Unset
    /\ error = "none"

\* filter_conda_by_keywords(conda_filtered, keywords)
FilterAgain ==
    /\ pc = "save_filtered_conda_to_json" /\ error = "none"
    /\ LET r == filter_conda_by_keywords(conda_filtered.val, keywords.val)
       IN  /\ stdout' = stdout \o r.out
           /\ IF r.err = "none"
              THEN /\ refiltered' = Val(r.val)
                   /\ pc' = "done"
                   /\ error' = error
              ELSE /\ error' = r.err
                   /\ UNCHANGED <<refiltered, pc>>
    /\ UNCHANGED <<kwDoc, files, writable, keywords, i, data, conda, conda_filtered, output>>

NextFilter == Filter \/ FilterAgain

SpecFilter == InitFilter /\ [][NextFilter]_vars

(***************************************************************************)
(* Properties                                                              *)
(***************************************************************************)
Ran == pc # "filter_conda_by_keywords" \/ error # "none"
Returned == conda_filtered.set

\* the filter printed that keyword kw matched the recipe stored under key
Reported(key, kw) ==
    \E l \in 1..Len(stdout) :
        /\ stdout[l].tag = "match"
        /\ stdout[l].name = key
        /\ InList(kw, stdout[l].matched)

FieldText(v) == IF v.kind = "str" THEN v.val ELSE <<>>
DescriptionSummary(recipe) ==
    Lower(FieldText(recipe.about.description) \o <<" ">> \o FieldText(recipe.about.summary))
SummaryDescription(recipe) ==
    Lower(FieldText(recipe.about.summary) \o <<" ">> \o FieldText(recipe.about.description))

\* the characters a..b of t are one whitespace-delimited word of t
IsWord(t, a, b) ==
    /\ 1 <= a /\ a <= b /\ b <= Len(t)
    /\ \A k \in a..b : t[k] # " "
    /\ a = 1 \/ t[a - 1] = " "
    /\ b = Len(t) \/ t[b + 1] = " "

\* w is p with every "*" replaced by some run of characters and every "?" by one
GlobDenotes(w, p) ==
    \E run \in [{k \in 1..Len(p) : p[k] = "*"} -> 0..Len(w)] :
        LET end[k \in 0..Len(p)] ==
                IF k = 0 THEN 0
                ELSE end[k - 1] + (IF p[k] = "*" THEN run[k] ELSE 1)
        IN  /\ end[Len(p)] = Len(w)
            /\ \A k \in 1..Len(p) : p[k] \in {"*", "?"} \/ w[end[k]] = p[k]

SomeWordDenotes(t, p) ==
    \E a \in 1..Len(t) : \E b \in a..Len(t) :
        IsWord(t, a, b) /\ GlobDenotes(SubSeq(t, a, b), p)

Occurs(sub, t) == \E a \in 0..Len(t) : \E b \in a..Len(t) : SubSeq(t, a + 1, b) = sub

RecipeMatches(recipe, kws) ==
    \E k \in 1..Len(kws) : kws[k].kind = "str" /\ KwMatches(kws[k].val, DescriptionSummary(recipe))

\* C1: what the filter returns holds exactly the input keys whose recipe matches
\* at least one keyword, each with the recipe of the input (so nothing for an
\* empty keyword sequence), and the filter leaves its inputs as they were
C1_FilterResult ==
    /\ [](Returned =>
            /\ Keys(conda_filtered.val) =
                 {conda.val[n].key : n \in {m \in 1..Len(conda.val) :
                                              RecipeMatches(conda.val[m].doc, keywords.val)}}
            /\ Keys(conda_filtered.val) \subseteq Keys(conda.val)
            /\ Len(conda_filtered.val) = Cardinality(Keys(conda_filtered.val))
            /\ \A k \in Keys(conda_filtered.val) :
                 Get(conda_filtered.val, k) = Get(conda.val, k)
            /\ keywords.val = <<>> => conda_filtered.val = <<>>)
    /\ [][pc = "filter_conda_by_keywords" => conda' = conda /\ keywords' = keywords]_vars

C1_Witness ==
    /\ Returned
    /\ Len(conda.val) >= 2
    /\ Len(conda_filtered.val) >= 1
    /\ Len(conda_filtered.val) < Len(conda.val)

\* C6: filtering the result of the filter by the same keywords returns the same
\* collection, and does not fail
C6_Idempotent ==
    /\ refiltered.set => refiltered.val = conda_filtered.val
    /\ Returned => error = "none"

C6_Witness ==
    /\ refiltered.set
    /\ Len(refiltered.val) >= 1
    /\ Len(conda.val) > Len(refiltered.val)

\* C7: a keyword with a "*" is reported for a recipe exactly when some
\* whitespace-delimited word of the lower-cased search text is, as a whole, the
\* lower-cased pattern with each "*" replaced by a run of characters of that word;
\* "metagenom*" is reported for a text with the word "metagenomic" and not for a
\* text whose only candidate is "genome"
C7_WildcardPerWord ==
    Returned =>
        /\ \A n \in 1..Len(conda.val) : \A k \in 1..Len(keywords.val) :
             LET kw == keywords.val[k]
             IN  HasChar("*", kw.val) =>
                   (Reported(conda.val[n].key, kw)
                      <=> SomeWordDenotes(SearchText(conda.val[n].doc).text, Lower(kw.val)))
        /\ (conda.val = sample_conda /\ keywords.val = sample_keywords) =>
             /\ Reported(Str(Pkg("3")), Str(METAGENOM))
             /\ ~Reported(Str(Pkg("2")), Str(METAGENOM))
        /\ (conda.val = example_conda /\ keywords.val = sample_keywords) =>
             ~Reported(Str(Pkg("4")), Str(METAGENOM))

C7_Witness ==
    /\ Returned
    /\ conda.val = sample_conda
    /\ Reported(Str(Pkg("3")), Str(METAGENOM))

\* C8: a keyword without a "*" is reported for a recipe exactly when the
\* lower-cased keyword occurs somewhere in the lower-cased search text, across
\* words or inside one; "16S" is reported for a text with "16s rrna"
C8_LiteralSubstring ==
    Returned =>
        /\ \A n \in 1..Len(conda.val) : \A k \in 1..Len(keywords.val) :
             LET kw == keywords.val[k]
             IN  ~HasChar("*", kw.val) =>
                   (Reported(conda.val[n].key, kw)
                      <=> Occurs(Lower(kw.val), SearchText(conda.val[n].doc).text))
        /\ (conda.val = example_conda /\ keywords.val = sample_keywords) =>
             Reported(Str(Pkg("4")), Str(K16S))
        /\ (conda.val = sample_conda /\ keywords.val = sample_keywords) =>
             /\ Reported(Str(Pkg("1")), Str(K16S))
             /\ Keys(conda_filtered.val) = {Str(Pkg("1")), Str(Pkg("3"))}

C8_Witness ==
    /\ Returned
    /\ conda.val = example_conda
    /\ Reported(Str(Pkg("4")), Str(K16S))

WellFormed(recipe) ==
    /\ recipe.about.kind \in {"missing", "map"}
    /\ recipe.about.summary.kind \in {"missing", "str"}
    /\ recipe.about.description.kind \in {"missing", "str"}

\* C10 as claimed: the text searched is summary, space, description, lower-cased,
\* a missing section or field counting as empty and never failing the filter
C10_SummaryThenDescription ==
    Ran =>
        /\ ((\A n \in 1..Len(conda.val) : WellFormed(conda.val[n].doc))
            /\ (\A k \in 1..Len(keywords.val) : keywords.val[k].kind = "str"))
              => Returned
        /\ Returned =>
             \A n \in 1..Len(conda.val) : \A k \in 1..Len(keywords.val) :
                Reported(conda.val[n].key, keywords.val[k])
                  <=> KwMatches(keywords.val[k].val, SummaryDescription(conda.val[n].doc))

\* C10 as amended: the text searched is description, space, summary, lower-cased,
\* a missing section or field counting as empty and never failing the filter
C10_DescriptionThenSummary ==
    Ran =>
        /\ ((\A n \in 1..Len(conda.val) : WellFormed(conda.val[n].doc))
            /\ (\A k \in 1..Len(keywords.val) : keywords.val[k].kind = "str"))
              => Returned
        /\ Returned =>
             \A n \in 1..Len(conda.val) : \A k \in 1..Len(keywords.val) :
                Reported(conda.val[n].key, keywords.val[k])
                  <=> KwMatches(keywords.val[k].val, DescriptionSummary(conda.val[n].doc))

C10_Witness ==
    /\ Returned
    /\ Len(conda.val) = 1
    /\ conda.val[1].doc.about = AboutMap(Str(<<"b">>), Str(<<"a">>))
    /\ Reported(conda.val[1].key, Str(<<"a", " ", "b">>))

HasPackageName(d) ==
    d.kind = "map" /\ d.package.kind = "map" /\ d.package.name.kind # "missing"
MatchedSomeKeyword(d) ==
    \E k \in 1..Len(keywords.val) :
        /\ keywords.val[k].kind = "str"
        /\ KwMatches(keywords.val[k].val, DescriptionSummary(d))

\* C2 as claimed: every exported recipe has a non-empty package.name and matched
\* at least one keyword against its lower-cased description-plus-summary text
C2_ExportedNonEmptyName ==
    output.set =>
        \A n \in 1..Len(output.val) :
            LET d == output.val[n].doc
            IN  /\ HasPackageName(d)
                /\ d.package.name.kind = "str" /\ d.package.name.val # <<>>
                /\ MatchedSomeKeyword(d)

\* C2 as amended: every exported recipe has a package.name field (whatever its
\* value) and matched at least one keyword against its lower-cased
\* description-plus-summary text
C2_ExportedHasName ==
    output.set =>
        \A n \in 1..Len(output.val) :
            LET d == output.val[n].doc
            IN  /\ HasPackageName(d)
                /\ MatchedSomeKeyword(d)

C2_Witness ==
    /\ pc = "done"
    /\ Len(output.val) >= 1
    /\ Len(conda.val) > Len(output.val)

ParseFailed == pc = "parse_bioconda" /\ error # "none"

\* the document is empty or a mapping, and has no package section, or one
\* without a name, or one that is empty, null or no mapping
LacksPackageName(d) == d.kind \in {"null", "map"} /\ ~HasPackageName(d)

\* C4: a file whose document lacks package.name makes parse_bioconda fail with
\* the ValueError of the validation, and no collection is returned
C4_MissingNameIsValueError ==
    /\ (pc = "parse_bioconda" /\ i < Len(files) /\ files[i + 1].outcome = "ok"
          /\ LacksPackageName(files[i + 1].doc))
         => (error # "none" => error = "ValueError")
    /\ conda.set =>
         \A n \in 1..Len(files) : files[n].outcome = "ok" /\ ~LacksPackageName(files[n].doc)

\* C5: an error ends the run where it is raised: nothing runs after it, a failing
\* recipe file is never passed over, a failed loader returns no collection, and
\* neither the filter nor the exporter has run nor is any output written; a
\* keyword-configuration error comes before any recipe is read
C5_ErrorsTerminate ==
    /\ error # "none" => ~ENABLED Next
    /\ \A n \in 1..i : FileError(files[n]) = "none"
    /\ ParseFailed =>
         /\ FileError(files[i + 1]) = error
         /\ ~conda.set /\ ~conda_filtered.set /\ ~output.set
         /\ \A l \in 1..Len(stdout) : stdout[l].tag = "loaded"
    /\ (pc = "load_keywords_from_yaml" /\ error # "none") =>
         /\ files = <<>> /\ i = 0 /\ data = <<>>
         /\ ~keywords.set /\ ~conda.set /\ ~conda_filtered.set /\ ~output.set
    /\ (pc = "filter_conda_by_keywords" /\ error # "none") => ~conda_filtered.set /\ ~output.set
    /\ (pc = "save_filtered_conda_to_json" /\ error # "none") => ~output.set
    /\ output.set => error = "none" /\ pc = "done"

C5_Witness ==
    /\ ParseFailed
    /\ i = 1
    /\ Len(files) >= 2
    /\ data # <<>>

Loading == pc = "load_keywords_from_yaml" /\ error = "none"
KeyPresent == kwDoc.kind = "map" /\ kwDoc.has

\* C9: the keyword loader returns the value under "keywords" exactly when the
\* configuration has that key with a sequence for value; it fails with
\* ValueError when the key is absent or the file empty, with TypeError when the
\* value is no sequence, and then returns nothing
C9_KeywordLoader ==
    ~Loading =>
        /\ (KeyPresent /\ kwDoc.value.kind = "list")
             <=> (keywords.set /\ keywords.val = kwDoc.value.list)
        /\ keywords.set <=> ~(pc = "load_keywords_from_yaml" /\ error # "none")
        /\ ~KeyPresent => (pc = "load_keywords_from_yaml" /\ error = "ValueError")
        /\ (KeyPresent /\ kwDoc.value.kind # "list")
             => (pc = "load_keywords_from_yaml" /\ error = "TypeError")

====
